---- MODULE Spec2Model ----
(***************************************************************************)
(* Model of update_results.py: ResultsUpdaterSportAPI reconciles finished  *)
(* SportAPI fixtures with locally stored Pinnacle events and writes one    *)
(* row per match into the results table.                                   *)
(*                                                                         *)
(* Two specifications share the driver loop and the batch:                 *)
(*   Spec        match_and_insert_results called once per period on an     *)
(*               open connection with candidate events handed in by the    *)
(*               caller (rows as fetch_pinnacle_events builds them);       *)
(*   SpecUpdate  update() as the module runs it, starting at connect_db.   *)
(*               Its read of the candidates always fails (timezone is not  *)
(*               imported) and yields no candidates, so the matcher and    *)
(*               the inserts are exercised under Spec.                     *)
(***************************************************************************)
EXTENDS Integers, Sequences, FiniteSets, TLC

\* ---------------------------------------------------------------- bounds
MaxFixtures == 2      \* longest list of fixtures the feed returns for a day
MaxPeriods == 2       \* days in the date range start_date..end_date

\* ------------------------------------------------------- program constants
TOLERANCE_DAYS == 14
TOURNAMENT_ID == 384
HoursPerDay == 24
start_date == 1

\* the local time zone of the process, in hours east of UTC
LocalUtcOffset == 1

\* the date range is start_date..end_date, one period a day
end_date == start_date + MaxPeriods - 1

\* names bound by "from datetime import ..."; timezone is not among them
ImportedNames == {"datetime", "timedelta"}

\* ------------------------------------------------------------ text values
\* A string is a sequence of one-character strings.
Whitespace == {" "}
UpperCase == <<"A", "C", "H", "E", "R", "S">>
LowerCase == <<"a", "c", "h", "e", "r", "s">>

LowerChar(c) ==
    IF \E i \in 1..Len(UpperCase) : UpperCase[i] = c
    THEN LowerCase[CHOOSE i \in 1..Len(UpperCase) : UpperCase[i] = c]
    ELSE c

\* str.lower()
Lower(s) == [i \in 1..Len(s) |-> LowerChar(s[i])]

RECURSIVE LStrip(_)
LStrip(s) ==
    IF s # <<>> /\ Head(s) \in Whitespace THEN LStrip(Tail(s)) ELSE s

RECURSIVE RStrip(_)
RStrip(s) ==
    IF s # <<>> /\ s[Len(s)] \in Whitespace
    THEN RStrip(SubSeq(s, 1, Len(s) - 1))
    ELSE s

\* str.strip()
Strip(s) == RStrip(LStrip(s))

\* name.strip().lower()
Normalize(s) == Lower(Strip(s))

\* ------------------------------------------------------------ JSON values
\* An optional value is <<>> (key absent, or JSON null) or <<v>>.
None == <<>>
Some(v) == <<v>>

\* A tournament id is an int or a string in the feed.
IntId(n) == [k |-> "int", i |-> n, s |-> ""]
StrId(t) == [k |-> "str", i |-> 0, s |-> t]

\* str(x) of an optional id
Str(x) ==
    IF x = None THEN "None"
    ELSE IF x[1].k = "int" THEN ToString(x[1].i)
    ELSE x[1].s

\* A team name in the feed: key absent, JSON null, or a string.
NameAbsent == [k |-> "absent", s |-> <<>>]
NameNull == [k |-> "null", s |-> <<>>]
NameStr(t) == [k |-> "str", s |-> t]

\* api_event.get("homeTeam", {}).get("name", "")
GetName(n) == IF n.k = "absent" THEN NameStr(<<>>) ELSE n

\* ------------------------------------------------------------------- time
\* Instants are whole hours; a date is the day number of a local time.
At(day, hour) == day * HoursPerDay + hour

\* datetime.date()
DateOf(t) == t \div HoursPerDay

\* datetime.fromtimestamp(ts): epoch time to naive local time
FromTimestamp(ts) == ts + LocalUtcOffset

\* abs()
Abs(n) == IF n < 0 THEN -n ELSE n

\* ------------------------------------------------------------ input data

Ars == <<"A", "r", "s">>
ArsPadded == <<" ", "A", "R", "S", " ">>
ArsFc == <<"A", "r", "s", " ", "f", "c">>
Che == <<"C", "h", "e">>

\* Rows of odds1x2 (event_id, home_team, away_team, starts): the same
\* pairing on local days 20 and 46.
DbRows == {
    [event_id |-> 1, home_team |-> Some(Ars), away_team |-> Some(Che),
     starts |-> At(20, 1)],
    [event_id |-> 2, home_team |-> Some(ArsPadded), away_team |-> Some(Che),
     starts |-> At(46, 15)] }

\* what the SELECT DISTINCT can return: lists of distinct rows
RowLists ==
    {l \in UNION {[1..n -> DbRows] : n \in 0..Cardinality(DbRows)} :
        \A i, j \in 1..Len(l) : i # j => l[i] # l[j]}

\* Finished, of the tracked tournament, scored 2-1, and within the
\* tolerance of both Ars-Che rows: 12 days after one, 14 before the other.
BaseFixture ==
    [status |-> Some("finished"), tournament |-> Some(IntId(TOURNAMENT_ID)),
     homeScore |-> Some(2), awayScore |-> Some(1),
     homeTeam |-> NameStr(Ars), awayTeam |-> NameStr(Che),
     startTimestamp |-> Some(At(32, 14))]

\* status, tournament and scores, one departure from the base at a time
FilterFixtures ==
    {[BaseFixture EXCEPT !.status = st] : st \in {None, Some("inprogress")}}
    \cup {[BaseFixture EXCEPT !.tournament = t] :
            t \in {None, Some(StrId("384")), Some(IntId(17))}}
    \cup {[BaseFixture EXCEPT !.homeScore = None],
          [BaseFixture EXCEPT !.awayScore = None]}

\* team names as the feed writes them, malformed ones included
NameFixtures ==
    {[BaseFixture EXCEPT !.homeTeam = h] :
        h \in {NameStr(ArsPadded), NameStr(ArsFc), NameNull, NameAbsent}}

\* start instants around the tolerance window, and a missing one: local
\* days 31, 34 and 35 (23:00 UTC of day 34 is day 35 of the local zone)
TimeFixtures ==
    {[BaseFixture EXCEPT !.startTimestamp = ts] :
        ts \in {Some(At(31, 5)), Some(At(34, 22)), Some(At(34, 23)), None}}

\* the base fixture reported with another score
ScoreFixtures ==
    {[BaseFixture EXCEPT !.homeScore = Some(0), !.awayScore = Some(0)]}

\* What the feed can serve during one run: the base fixture and one family
\* of departures from it.
Feeds ==
    {{BaseFixture} \cup F :
        F \in {FilterFixtures, NameFixtures, TimeFixtures, ScoreFixtures}}

\* what cursor.execute and conn.commit can meet
ExecFaults == {"ok", "client_error", "server_error", "conn_lost"}
CommitFaults == {"ok", "conn_lost"}

\* ------------------------------------------------- fetch_pinnacle_events
\* One row as line 49-54 builds it: names trimmed and lowercased, "" for a
\* NULL or empty name.
RowToEvent(r) ==
    [event_id |-> r.event_id,
     home_team |-> IF r.home_team # None /\ r.home_team[1] # <<>>
                   THEN Normalize(r.home_team[1]) ELSE <<>>,
     away_team |-> IF r.away_team # None /\ r.away_team[1] # <<>>
                   THEN Normalize(r.away_team[1]) ELSE <<>>,
     starts |-> r.starts]

RowsToEvents(rows) == [i \in 1..Len(rows) |-> RowToEvent(rows[i])]

\* The body of the try block: evaluating timezone.utc raises NameError when
\* the name is not bound, the query raises when the store fails; "except
\* Exception" turns either into an empty list.
fetch_pinnacle_events(rows, queryOk) ==
    IF "timezone" \notin ImportedNames \/ ~queryOk
    THEN [events |-> <<>>, failed |-> TRUE]
    ELSE [events |-> RowsToEvents(rows), failed |-> FALSE]

\* ------------------------------------------ match_and_insert_results, pure
tournament_id == Some(IntId(TOURNAMENT_ID))

\* FilterStep comparing the ids themselves instead of their str() forms.
FilterStepNoStr(f) ==
    IF f.status # Some("finished") THEN "unfinished"
    ELSE IF f.tournament # tournament_id THEN "tournament"
    ELSE IF f.homeScore = None \/ f.awayScore = None THEN "noscore"
    ELSE "eligible"

\* Lines 85-99: the three skip tests in the order the code makes them.
FilterStep(f) ==
    IF f.status # Some("finished") THEN "unfinished"
    ELSE IF Str(f.tournament) # Str(tournament_id) THEN "tournament"
    ELSE IF f.homeScore = None \/ f.awayScore = None THEN "noscore"
    ELSE "eligible"

\* Lines 100-102 raise on a null team name (None.strip) and on a missing
\* start timestamp (fromtimestamp(None)); nothing catches it.
Raises(f) ==
    \/ GetName(f.homeTeam).k = "null"
    \/ GetName(f.awayTeam).k = "null"
    \/ f.startTimestamp = None

\* Satisfies with the window one day short (< where the code has <=).
SatisfiesStrict(api_home, api_away, api_start, p_event) ==
    /\ api_home = p_event.home_team
    /\ api_away = p_event.away_team
    /\ Abs(DateOf(api_start) - DateOf(p_event.starts)) < TOLERANCE_DAYS

\* Lines 107-111.
Satisfies(api_home, api_away, api_start, p_event) ==
    /\ api_home = p_event.home_team
    /\ api_away = p_event.away_team
    /\ Abs(DateOf(api_start) - DateOf(p_event.starts)) <= TOLERANCE_DAYS

\* Scan keeping the last satisfying candidate instead of the first.
ScanLast(i, api_home, api_away, api_start, events) ==
    LET S == {j \in i..Len(events) :
                /\ api_home = events[j].home_team
                /\ api_away = events[j].away_team
                /\ Abs(DateOf(api_start) - DateOf(events[j].starts))
                     <= TOLERANCE_DAYS}
    IN  IF S = {} THEN <<>>
        ELSE <<CHOOSE j \in S : \A k \in S : k <= j>>

\* Scan without the break: the insert runs for every satisfying candidate.
RECURSIVE ScanNoBreak(_, _, _, _, _)
ScanNoBreak(i, api_home, api_away, api_start, events) ==
    IF i > Len(events) THEN <<>>
    ELSE IF /\ api_home = events[i].home_team
            /\ api_away = events[i].away_team
            /\ Abs(DateOf(api_start) - DateOf(events[i].starts))
                 <= TOLERANCE_DAYS
         THEN <<i>> \o ScanNoBreak(i + 1, api_home, api_away, api_start,
                                   events)
    ELSE ScanNoBreak(i + 1, api_home, api_away, api_start, events)

\* Lines 105-126: the indices of the candidates for which the insert is
\* executed, scanning from index i; the break ends the scan at the first.
RECURSIVE Scan(_, _, _, _, _)
Scan(i, api_home, api_away, api_start, events) ==
    IF i > Len(events) THEN <<>>
    ELSE IF Satisfies(api_home, api_away, api_start, events[i]) THEN <<i>>
    ELSE Scan(i + 1, api_home, api_away, api_start, events)

\* Lines 113-120: the tuple handed to the insert.
ResultRow(p_event, f, api_start) ==
    [event_id |-> p_event.event_id,
     home_team |-> f.homeTeam,
     away_team |-> f.awayTeam,
     starts |-> api_start,
     home_score |-> f.homeScore[1],
     away_score |-> f.awayScore[1]]

\* ------------------------------------------------------------- the store
\* The key of the uniqueness constraint of the results table.
ConflictKey(row) == row.event_id

\* InsertQuery without its ON CONFLICT clause taking effect.
InsertQueryPlain(committed, uncommitted, row) == uncommitted \cup {row}

\* Lines 76-80, INSERT ... ON CONFLICT DO NOTHING: the rows of the open
\* transaction after the statement, given the rows it can see.
InsertQuery(committed, uncommitted, row) ==
    IF \E r \in committed \cup uncommitted : ConflictKey(r) = ConflictKey(row)
    THEN uncommitted
    ELSE uncommitted \cup {row}

\* cursor.execute(insert_query, row) on connection state db under a fault:
\* a closed connection and an aborted transaction raise at once; a client
\* error raises before anything is sent; a server error aborts the
\* transaction; a lost connection takes the transaction with it.
Execute(db, committed, row, fault) ==
    IF db.conn # "open" THEN [db EXCEPT !.raised = TRUE]
    ELSE IF db.tx = "inerror" THEN [db EXCEPT !.raised = TRUE]
    ELSE IF fault = "client_error" THEN [db EXCEPT !.raised = TRUE]
    ELSE IF fault = "server_error"
         THEN [db EXCEPT !.raised = TRUE, !.tx = "inerror"]
    ELSE IF fault = "conn_lost"
         THEN [db EXCEPT !.raised = TRUE, !.conn = "broken",
                         !.tx = "idle", !.pending = {}]
    ELSE [db EXCEPT !.raised = FALSE, !.tx = "intrans",
                    !.pending = InsertQuery(committed, db.pending, row)]

\* ------------------------------------------------------------------ state
VARIABLES
    pc,               \* where update() stands: "connect", "fetch_pinnacle",
                      \* "loop" (line 141), "batch" (line 84), "summary"
                      \* (line 134), "done", "aborted" (an exception left
                      \* update), "exit1"
    feed,             \* the fixtures the external feed can serve
    cur_date,
    pinnacle_events,  \* the candidates handed to match_and_insert_results
    conn,             \* self.conn: "none", "open", "broken", "closed"
    tx,               \* its transaction: "idle", "intrans", "inerror"
    results,          \* committed rows of the results table
    pending,          \* rows inserted by the open transaction
    todo,             \* fixtures of sportapi_events not yet iterated
    count,
    skipped,
    api_event,        \* the fixture of the latest iteration, None before
    outcome,          \* what that iteration did
    targets,          \* candidate indices its insert was executed for
    batch,            \* observed of the current batch
    run               \* observed of the whole run

vars == <<pc, feed, cur_date, pinnacle_events, conn, tx, results,
          pending, todo, count, skipped, api_event, outcome, targets,
          batch, run>>

NewBatch(n) ==
    [len |-> n, rowsAdded |-> 0, failed |-> 0, okKeys |-> {},
     commit |-> "none"]

NewRun ==
    [processed |-> <<>>, requests |-> 0, readFailed |-> FALSE,
     attempted |-> {}, rematched |-> FALSE]

\* Lines 112-126 for the candidates ts of one fixture, in order: each insert
\* is tried, counted when execute returns and logged when it raises.
RECURSIVE InsertAll(_, _, _, _, _)
InsertAll(ts, acc, f, api_start, fault) ==
    IF ts = <<>> THEN acc
    ELSE LET p_event == pinnacle_events[Head(ts)]
             row == ResultRow(p_event, f, api_start)
             db == Execute(acc, results, row, fault)
             next ==
                 [db EXCEPT
                    !.count = IF db.raised THEN @ ELSE @ + 1,
                    !.failed = IF db.raised THEN @ + 1 ELSE @,
                    !.rowsAdded = IF db.pending # acc.pending /\ ~db.raised
                                  THEN @ + 1 ELSE @,
                    !.okKeys = IF db.raised THEN @ ELSE @ \cup {row.event_id},
                    !.rematched = @ \/ row.event_id \in acc.attempted,
                    !.attempted = @ \cup {row.event_id}]
         IN  InsertAll(Tail(ts), next, f, api_start, fault)

\* ---------------------------------------------------------------- actions
\* connect_db, lines 27-32
ConnectDb ==
    /\ pc = "connect"
    /\ \E ok \in BOOLEAN :
         IF ok THEN pc' = "fetch_pinnacle" /\ conn' = "open"
         ELSE pc' = "exit1" /\ conn' = "none"
    /\ UNCHANGED <<feed, cur_date, pinnacle_events, tx, results,
                   pending, todo, count, skipped, api_event, outcome,
                   targets, batch, run>>

\* update, lines 139-140
FetchPinnacleEvents ==
    /\ pc = "fetch_pinnacle"
    /\ \E rows \in RowLists, queryOk \in BOOLEAN :
         LET r == fetch_pinnacle_events(rows, queryOk)
         IN  /\ pinnacle_events' = r.events
             /\ run' = [run EXCEPT !.readFailed = r.failed]
    /\ cur_date' = start_date
    /\ pc' = "loop"
    /\ UNCHANGED <<feed, conn, tx, results, pending, todo, count,
                   skipped, api_event, outcome, targets, batch>>

\* update, lines 141-145, and match_and_insert_results up to line 83: one
\* feed request (a failed one yields no fixtures), then the cursor is
\* opened, which raises on a connection that is no longer open.
FetchSportapiEvents ==
    /\ pc = "loop"
    /\ cur_date <= end_date
    /\ \E feedOk \in BOOLEAN, n \in 0..MaxFixtures :
         /\ todo' = IF feedOk THEN n ELSE 0
         /\ batch' = NewBatch(IF feedOk THEN n ELSE 0)
    /\ run' = [run EXCEPT !.requests = @ + 1]
    /\ count' = 0
    /\ skipped' = 0
    /\ IF conn = "open"
       THEN pc' = "batch" /\ conn' = conn
       ELSE pc' = "aborted" /\ conn' = "closed"
    /\ UNCHANGED <<feed, cur_date, pinnacle_events, tx, results,
                   pending, api_event, outcome, targets>>

\* One iteration of the loop of line 84, lines 85-129.
ProcessFixture ==
    /\ pc = "batch"
    /\ todo > 0
    /\ \E f \in feed :
         /\ api_event' = Some(f)
         /\ IF FilterStep(f) # "eligible"
            THEN /\ outcome' = "skipped"
                 /\ skipped' = skipped + 1
                 /\ todo' = todo - 1
                 /\ UNCHANGED <<pc, conn, tx, pending, count, targets,
                                batch, run>>
            ELSE IF Raises(f)
            THEN \* the exception leaves the with block and update's try:
                 \* nothing is committed, finally closes the connection
                 /\ outcome' = "raised"
                 /\ pc' = "aborted"
                 /\ conn' = "closed"
                 /\ tx' = "idle"
                 /\ pending' = {}
                 /\ UNCHANGED <<todo, count, skipped, targets, batch, run>>
            ELSE \E fault \in ExecFaults :
                 LET api_home == Normalize(GetName(f.homeTeam).s)
                     api_away == Normalize(GetName(f.awayTeam).s)
                     api_start == FromTimestamp(f.startTimestamp[1])
                     ts == Scan(1, api_home, api_away, api_start,
                                pinnacle_events)
                     acc == InsertAll(ts,
                              [conn |-> conn, tx |-> tx, pending |-> pending,
                               raised |-> FALSE, count |-> count,
                               rowsAdded |-> batch.rowsAdded,
                               failed |-> batch.failed,
                               okKeys |-> batch.okKeys,
                               attempted |-> run.attempted,
                               rematched |-> run.rematched],
                              f, api_start, fault)
                     matched == ts # <<>>
                 IN  /\ targets' = ts
                     /\ outcome' = IF ~matched THEN "nomatch"
                                   ELSE IF acc.failed > batch.failed
                                   THEN "insert_failed" ELSE "inserted"
                     /\ skipped' = IF matched THEN skipped ELSE skipped + 1
                     /\ count' = acc.count
                     /\ conn' = acc.conn
                     /\ tx' = acc.tx
                     /\ pending' = acc.pending
                     /\ batch' = [batch EXCEPT !.rowsAdded = acc.rowsAdded,
                                               !.failed = acc.failed,
                                               !.okKeys = acc.okKeys]
                     /\ run' = [run EXCEPT !.attempted = acc.attempted,
                                           !.rematched = acc.rematched]
                     /\ todo' = todo - 1
                     /\ pc' = pc
    /\ UNCHANGED <<feed, cur_date, pinnacle_events, results>>

\* Lines 130-134: the commit of the batch and its summary line. A commit on
\* an aborted transaction rolls it back without raising; a commit that
\* raises is logged and the rows are lost.
Commit ==
    /\ pc = "batch"
    /\ todo = 0
    /\ \E fault \in CommitFaults :
         LET how == IF conn # "open" THEN "failed"
                    ELSE IF tx = "inerror" THEN "rollback"
                    ELSE IF tx = "idle" THEN "ok"
                    ELSE IF fault = "ok" THEN "ok" ELSE "failed"
         IN  /\ results' = IF how = "ok" THEN results \cup pending
                           ELSE results
             /\ conn' = IF how = "failed" /\ conn = "open" THEN "broken"
                        ELSE conn
             /\ batch' = [batch EXCEPT !.commit = how]
    /\ pending' = {}
    /\ tx' = "idle"
    /\ pc' = "summary"
    /\ UNCHANGED <<feed, cur_date, pinnacle_events, todo, count, skipped,
                   api_event, outcome, targets, run>>

\* match_and_insert_results returns (its locals are gone) and update's
\* line 146 moves to the next day.
Return ==
    /\ pc = "summary"
    /\ cur_date' = cur_date + 1
    /\ run' = [run EXCEPT !.processed = Append(@, cur_date)]
    /\ count' = 0
    /\ skipped' = 0
    /\ api_event' = None
    /\ outcome' = "none"
    /\ targets' = <<>>
    /\ batch' = NewBatch(0)
    /\ pc' = "loop"
    /\ UNCHANGED <<feed, pinnacle_events, conn, tx, results, pending, todo>>

\* update, lines 141 and 147-148: the range is exhausted
Finish ==
    /\ pc = "loop"
    /\ cur_date > end_date
    /\ pc' = "done"
    /\ conn' = "closed"
    /\ UNCHANGED <<feed, cur_date, pinnacle_events, tx, results,
                   pending, todo, count, skipped, api_event, outcome,
                   targets, batch, run>>

\* --------------------------------------------------------- specifications
InitCommon ==
    /\ feed \in Feeds
    /\ cur_date = start_date
    /\ tx = "idle"
    /\ results = {}
    /\ pending = {}
    /\ todo = 0
    /\ count = 0
    /\ skipped = 0
    /\ api_event = None
    /\ outcome = "none"
    /\ targets = <<>>
    /\ batch = NewBatch(0)
    /\ run = NewRun

\* The driver loop over candidates the caller read from the store.
Init ==
    /\ InitCommon
    /\ pc = "loop"
    /\ conn = "open"
    /\ pinnacle_events \in {RowsToEvents(rows) : rows \in RowLists}

Next ==
    \/ FetchSportapiEvents
    \/ ProcessFixture
    \/ Commit
    \/ Return
    \/ Finish

Spec == Init /\ [][Next]_vars

\* update() from its first line.
InitUpdate ==
    /\ InitCommon
    /\ pc = "connect"
    /\ conn = "none"
    /\ pinnacle_events = <<>>

NextUpdate ==
    \/ ConnectDb
    \/ FetchPinnacleEvents
    \/ FetchSportapiEvents
    \/ ProcessFixture
    \/ Commit
    \/ Return
    \/ Finish

SpecUpdate == InitUpdate /\ [][NextUpdate]_vars

TypeOK ==
    /\ pc \in {"connect", "fetch_pinnacle", "loop", "batch", "summary",
               "done", "aborted", "exit1"}
    /\ feed \in Feeds
    /\ cur_date \in start_date..end_date + 1
    /\ conn \in {"none", "open", "broken", "closed"}
    /\ tx \in {"idle", "intrans", "inerror"}
    /\ todo \in 0..MaxFixtures
    /\ count \in 0..MaxFixtures
    /\ skipped \in 0..MaxFixtures
    /\ outcome \in {"none", "skipped", "raised", "nomatch", "inserted",
                    "insert_failed"}

\* ----------------------------------------------------------------- claims
\* Vocabulary of the claims, stated on the observable state.
Keys(rows) == {r.event_id : r \in rows}

\* the step is one iteration of the fixture loop
IsIteration == pc = "batch" /\ pc' # "summary"

\* the fixture filter as the specification words it
Eligible(f) ==
    /\ f.status = Some("finished")
    /\ f.tournament # None
    /\ Str(f.tournament) = ToString(TOURNAMENT_ID)
    /\ f.homeScore # None
    /\ f.awayScore # None

\* whole calendar days between the local start of f and candidate i
DayDiff(f, i) ==
    Abs(DateOf(FromTimestamp(f.startTimestamp[1]))
        - DateOf(pinnacle_events[i].starts))

NamesEqual(f, i) ==
    /\ Normalize(GetName(f.homeTeam).s) = pinnacle_events[i].home_team
    /\ Normalize(GetName(f.awayTeam).s) = pinnacle_events[i].away_team

\* the candidates that satisfy all three conditions for f
Satisfying(f) ==
    {i \in 1..Len(pinnacle_events) :
        NamesEqual(f, i) /\ DayDiff(f, i) <= TOLERANCE_DAYS}

\* the latest iteration got as far as the matcher
Scanned == outcome \in {"nomatch", "inserted", "insert_failed"}

\* C1: a batch whose inserts were all suppressed duplicates (a re-run)
\* reports an inserted count of 0.
C1_ReRunReportsZero ==
    (pc = "summary" /\ batch.failed = 0 /\ batch.rowsAdded = 0) => count = 0

\* C2: the results table, open transaction included, holds at most one row
\* per event identifier, and a committed row is never changed or removed.
C2_OneRowPerKeyForGood ==
    /\ [](\A r1, r2 \in results \cup pending :
            r1.event_id = r2.event_id => r1 = r2)
    /\ [][results \subseteq results']_vars

\* a committed row for the event the latest fixture was matched to, with
\* another score than that fixture's, after its insert went through
C2_Witness ==
    /\ outcome = "inserted"
    /\ targets # <<>>
    /\ \E r \in results :
         /\ r.event_id = pinnacle_events[targets[1]].event_id
         /\ r.home_score # api_event[1].homeScore[1]
    /\ pc = "summary"
    /\ batch.commit = "ok"

C4_FirstInOrder ==
    [][(IsIteration /\ Eligible(api_event'[1]) /\ outcome' # "raised") =>
        LET f == api_event'[1]
            S == Satisfying(f)
            first == CHOOSE i \in S : \A j \in S : i <= j
        IN  IF S = {}
            THEN /\ outcome' = "nomatch"
                 /\ targets' = <<>>
                 /\ skipped' = skipped + 1
                 /\ count' = count
                 /\ pending' = pending
            ELSE /\ targets' = <<first>>
                 /\ skipped' = skipped
                 /\ run'.attempted =
                      run.attempted \cup {pinnacle_events[first].event_id}
                 /\ outcome' = "inserted" =>
                      pinnacle_events[first].event_id
                        \in Keys(results \cup pending')]_vars

\* two candidates satisfy, the second closer in date, the first was taken
C4_Witness ==
    /\ Scanned
    /\ Len(pinnacle_events) = 2
    /\ Satisfying(api_event[1]) = {1, 2}
    /\ DayDiff(api_event[1], 2) < DayDiff(api_event[1], 1)
    /\ targets = <<1>>
    /\ outcome = "inserted"

\* C5 as stated: no event identifier is the target of more than one insert
\* over the fixtures of a run.
C5_OneFixturePerEvent == run.rematched = FALSE

\* C5 as amended: each fixture is matched to at most one local event, so
\* the inserts attempted never outnumber the fixtures iterated.
C5_OneEventPerFixture ==
    /\ Len(targets) <= 1
    /\ pc \in {"batch", "summary"} =>
         count + batch.failed <= batch.len - todo

\* a second fixture was matched to an event already matched in this run
C5_Witness ==
    /\ run.rematched
    /\ outcome = "inserted"
    /\ Len(targets) = 1
    /\ count = 2

\* C6: once connected, update() ends only after every period of the range
\* was processed, in order; no failure of a period ends it early.
C6_EveryPeriodProcessed ==
    /\ pc # "aborted"
    /\ pc = "done" => run.processed = [i \in 1..MaxPeriods |-> start_date + i - 1]

\* C7: a failed read of the candidates ends the run before any feed request.
C7_ReadFailureFatal ==
    run.readFailed => (run.requests = 0 /\ pc \notin {"batch", "summary"})

\* C8: at the summary of every batch, inserted plus skipped is the number
\* of fixtures of the batch.
C8_CountsAddUp == pc = "summary" => count + skipped = batch.len

\* C9: after a batch with one failing insert whose commit did not raise,
\* every event whose insert went through has its row in the table.
C9_OthersStored ==
    (pc = "summary" /\ batch.failed = 1 /\ batch.commit # "failed") =>
        batch.okKeys \subseteq Keys(results)

\* C10: with equal normalized names, a candidate exactly TOLERANCE_DAYS
\* calendar days away, before or after, matches; no match is ever
\* TOLERANCE_DAYS + 1 days away.
C10_ToleranceBoundary ==
    Scanned =>
        LET f == api_event[1]
        IN  /\ (\E i \in 1..Len(pinnacle_events) :
                  NamesEqual(f, i) /\ DayDiff(f, i) = TOLERANCE_DAYS)
                 => targets # <<>>
            /\ (\A i \in 1..Len(pinnacle_events) :
                  NamesEqual(f, i) => DayDiff(f, i) >= TOLERANCE_DAYS + 1)
                 => outcome = "nomatch"
            /\ \A k \in 1..Len(targets) :
                 DayDiff(f, targets[k]) # TOLERANCE_DAYS + 1

\* the only candidate is exactly TOLERANCE_DAYS days from the fixture, which
\* starts more than 14 * 24 hours later, and the insert ran
C10_Witness ==
    /\ Scanned
    /\ Len(pinnacle_events) = 1
    /\ targets = <<1>>
    /\ DayDiff(api_event[1], 1) = TOLERANCE_DAYS
    /\ api_event[1].startTimestamp[1] - pinnacle_events[1].starts
         > TOLERANCE_DAYS * HoursPerDay

====
